---------------------------- MODULE Spec2Model ----------------------------
(***************************************************************************)
(* A model of dbidwell94/rust_p2p: the signaling relay (signal_server, an  *)
(* in-memory channel -> room -> peer-id store with a TTL sweeper), the     *)
(* client-side P2PConnection wrapper around one peer-connection engine     *)
(* instance, and the P2PClient acceptor loop.                              *)
(*                                                                         *)
(* Three specifications share the module: SpecRelay (the relay and its     *)
(* sweeper), SpecConn (two P2PConnections negotiating) and SpecClient (the *)
(* acceptor loop).  Each leaves the other components' variables at rest.   *)
(***************************************************************************)
EXTENDS Integers, Sequences, FiniteSets, TLC

VARIABLES
    \* ---- signal_server/src/main.rs
    room_map,       \* SocketChannels: channel -> room -> Uuid -> IceCandidateWithInitTime
    now,            \* the system clock, in whole seconds (get_now)
    sweeper,        \* the spawned sweeper task: where it is in its loop
    resp,           \* the response of the last request, until the store changes
    n_announce,     \* announce requests served so far (bounded by MaxAnnounce)
    n_tick,         \* clock advances so far (bounded by MaxTicks)
    \* ---- history of the relay, kept for the properties only
    announced,      \* per (channel, room, uuid): the batches appended to the
                    \* entry now stored, in call order
    last_announce,  \* per (channel, room, uuid): the time of the last
                    \* successful announce, -1 before the first
    swept_empty,    \* rooms whose entries a sweep removed to the last one,
                    \* and that no announce has named since
    \* ---- src/p2p_client.rs
    max_connections,            \* P2PClient.max_connections
    has_pending_connection,     \* P2PClient.has_pending_connection (AtomicBool)
    active_connections,         \* P2PClient.active_connections: engine ids, in push order
    connection_listener_handle, \* P2PClient.connection_listener_handle: a task or None
    client_alive,               \* the P2PClient value has not been dropped
    tasks,                      \* the tasks accept_connections spawned
    engines,                    \* every P2PConnection the loops built, in creation order
    in_flight_at_cancel,        \* history: the connections that were under construction
                                \* when their task was cancelled
    \* ---- src/p2p_connection.rs
    conns,          \* the P2PConnections: the engine's descriptions and signaling
                    \* state, ice_candidates, connected, and the closes made
    ret,            \* what the last call on a P2PConnection returned
    n_calls,        \* calls made on the P2PConnections so far (bounded by MaxCalls)
    n_events        \* engine callbacks delivered so far (bounded by MaxEvents)

relayVars == <<room_map, now, sweeper, resp, n_announce, n_tick,
               announced, last_announce, swept_empty>>

clientVars == <<max_connections, has_pending_connection, active_connections,
                connection_listener_handle, client_alive, tasks, engines,
                in_flight_at_cancel>>

connVars == <<conns, ret, n_calls, n_events>>

vars == <<relayVars, clientVars, connVars>>

-----------------------------------------------------------------------------
(* Bounds of the model. *)

MaxAnnounce == 2
MaxTicks == 2
MaxTasks == 2
MaxConnections == 2
MaxCalls == 4
MaxEvents == 2

(* Program constants. *)

TTL == 60
SweepInterval == 10

(* Inputs. *)

ChannelNames == {"c1", "c2"}
RoomNames == {"r1", "r2"}

\* Peer-id strings as they arrive in the query: "a1" and "b2" stand for two
\* uuids in the canonical lower-case hyphenated form, "A1" for the first one
\* written in upper case, "zz" for a string that is no uuid.
PeerIdStrings == {"a1", "A1", "b2", "zz"}
Uuids == {"a1", "b2"}
Invalid == "invalid"

Candidates == {"x", "y"}

None == "none"
Descriptions == {"offer", "answer"}
OptDescriptions == Descriptions \cup {None}

\* The BroadcastCandidateArgs bodies of an announce: an offer with two
\* candidates, a trickled candidate without a description, an answer without
\* candidates.
Bodies ==
    {[candidates |-> <<"x", "y">>, session_description |-> "offer"],
     [candidates |-> <<"y">>, session_description |-> None],
     [candidates |-> <<>>, session_description |-> "answer"]}

TickSteps == {1, 59}

-----------------------------------------------------------------------------
(* The relay: signal_server/src/main.rs *)

\* Uuid::parse_str: accepts the hyphenated form in either case and yields the
\* same Uuid for both; anything else is an error.
ParseUuid(s) ==
    CASE s = "a1" -> "a1"
      [] s = "A1" -> "a1"
      [] s = "b2" -> "b2"
      [] OTHER -> Invalid

\* Uuid::to_string: the canonical lower-case hyphenated form.
UuidToString(u) == u

Range(q) == {q[i] : i \in DOMAIN q}

\* A HashMap is a function on the set of its keys.
EmptyMap == <<>>

MapInsertIfAbsent(m, k, v) ==
    [x \in DOMAIN m \cup {k} |-> IF x \in DOMAIN m THEN m[x] ELSE v]

MapPut(m, k, v) ==
    [x \in DOMAIN m \cup {k} |-> IF x = k THEN v ELSE m[x]]

MapRetain(m, keep) ==
    [x \in {y \in DOMAIN m : y \in keep} |-> m[x]]

\* IceCandidateWithInitTime::default()
DefaultEntry(t) ==
    [candidate |-> <<>>, session_description |-> None, init_time |-> t]

Keys == ChannelNames \X RoomNames \X Uuids

HasChannel(m, ch) == ch \in DOMAIN m
HasRoom(m, ch, r) == HasChannel(m, ch) /\ r \in DOMAIN m[ch]
HasEntry(m, ch, r, u) == HasRoom(m, ch, r) /\ u \in DOMAIN m[ch][r]

\* The sequences that list every element of a finite set once: the orders in
\* which a HashMap may hand out its keys.
Orders(S) ==
    {q \in [1..Cardinality(S) -> S] : \A i, j \in 1..Cardinality(S) : q[i] = q[j] => i = j}

\* A sweeper that gives the lock up between two rooms.
LockFreeBetweenRooms == TRUE

\* The handlers take the lock for their whole body, the sweeper takes the
\* write lock for one whole iteration (line 146 to the end of the loop body).
LockFree == sweeper.pc = "sleeping"

NoResp == [op |-> "none", result |-> [status |-> "none"]]

\* The history after a step that leaves `m` as the store: an entry that is no
\* longer stored has no history.
Forget(h, m, blank) ==
    [k \in Keys |-> IF HasEntry(m, k[1], k[2], k[3]) THEN h[k] ELSE blank]

\* A get_room_candidate that looks the peer up in every room of the channel.
GetRoomCandidateResultAnyRoom(m, channel, room, candidate_id) ==
    LET candidate_uuid == ParseUuid(candidate_id) IN
    IF candidate_uuid = Invalid \/ ~HasChannel(m, channel) THEN [status |-> "NotFound"]
    ELSE LET rooms == {r \in DOMAIN m[channel] : candidate_uuid \in DOMAIN m[channel][r]} IN
         IF rooms = {} THEN [status |-> "NotFound"]
         ELSE [status |-> "Ok",
               body |-> m[channel][CHOOSE r \in rooms : r = room \/ room \notin rooms][candidate_uuid].candidate]

\* get_room_candidate: GET /candidate?channel&room&candidate_id
GetRoomCandidateResult(m, channel, room, candidate_id) ==
    LET candidate_uuid == ParseUuid(candidate_id) IN
    IF candidate_uuid = Invalid THEN [status |-> "NotFound"]
    ELSE IF ~HasChannel(m, channel) THEN [status |-> "NotFound"]
    ELSE IF room \notin DOMAIN m[channel] THEN [status |-> "NotFound"]
    ELSE IF candidate_uuid \notin DOMAIN m[channel][room] THEN [status |-> "NotFound"]
    ELSE [status |-> "Ok", body |-> m[channel][room][candidate_uuid].candidate]

get_room_candidate(channel, room, candidate_id) ==
    /\ LockFree
    /\ resp' = [op |-> "get_room_candidate",
                result |-> GetRoomCandidateResult(room_map, channel, room, candidate_id)]
    /\ UNCHANGED <<room_map, now, sweeper, n_announce, n_tick,
                   announced, last_announce, swept_empty>>
    /\ UNCHANGED <<clientVars, connVars>>

\* get_candidates_in_room: GET /all_candidates?channel&room.  The handler
\* collects the uuid strings into one String, so the body is a single JSON
\* string: the strings run together, in the map's key order.
get_candidates_in_room(channel, room) ==
    /\ LockFree
    /\ \/ /\ ~HasRoom(room_map, channel, room)
          /\ resp' = [op |-> "get_candidates_in_room", result |-> [status |-> "NotFound"]]
       \/ /\ HasRoom(room_map, channel, room)
          /\ \E order \in Orders(DOMAIN room_map[channel][room]) :
                resp' = [op |-> "get_candidates_in_room",
                         result |-> [status |-> "Ok", json |-> "string",
                                     concat |-> [i \in DOMAIN order |-> UuidToString(order[i])]]]
    /\ UNCHANGED <<room_map, now, sweeper, n_announce, n_tick,
                   announced, last_announce, swept_empty>>
    /\ UNCHANGED <<clientVars, connVars>>

\* get_rooms: GET /rooms?channel
get_rooms(channel) ==
    /\ LockFree
    /\ \/ /\ ~HasChannel(room_map, channel)
          /\ resp' = [op |-> "get_rooms", result |-> [status |-> "NotFound"]]
       \/ /\ HasChannel(room_map, channel)
          /\ \E order \in Orders(DOMAIN room_map[channel]) :
                resp' = [op |-> "get_rooms",
                         result |-> [status |-> "Ok", json |-> "array", body |-> order]]
    /\ UNCHANGED <<room_map, now, sweeper, n_announce, n_tick,
                   announced, last_announce, swept_empty>>
    /\ UNCHANGED <<clientVars, connVars>>

\* broadcast_candidate, lines 109-117: the channel and the room are entered
\* into the map before the peer id is parsed.
EnsureRoom(m, channel, room) ==
    LET withChannel == MapInsertIfAbsent(m, channel, EmptyMap)
    IN  MapPut(withChannel, channel, MapInsertIfAbsent(withChannel[channel], room, EmptyMap))

\* An announce that stores the batch in place of the list.
AnnounceEntryOverwrite(old, candidates, session_description) ==
    [old EXCEPT !.candidate = candidates,
                !.session_description = session_description]

\* broadcast_candidate, lines 127-131: the entry is the stored one, or a
\* default one made now; the candidates are appended and the description is
\* assigned.
AnnounceEntry(old, candidates, session_description) ==
    [old EXCEPT !.candidate = old.candidate \o candidates,
                !.session_description = session_description]

StoreEntry(m, channel, room, uuid, entry) ==
    MapPut(m, channel, MapPut(m[channel], room, MapPut(m[channel][room], uuid, entry)))

\* broadcast_candidate: POST /announce?channel&room&peer_id with a
\* BroadcastCandidateArgs body.
broadcast_candidate(channel, room, peer_id, candidates, session_description) ==
    /\ LockFree
    /\ n_announce < MaxAnnounce
    /\ n_announce' = n_announce + 1
    /\ LET ensured == EnsureRoom(room_map, channel, room)
           uuid == ParseUuid(peer_id)
           old == IF uuid \in DOMAIN ensured[channel][room]
                  THEN ensured[channel][room][uuid]
                  ELSE DefaultEntry(now)
       IN  IF uuid = Invalid
           THEN /\ room_map' = ensured
                /\ resp' = [op |-> "announce", result |-> [status |-> "BadRequest"]]
                /\ UNCHANGED <<announced, last_announce>>
           ELSE /\ room_map' = StoreEntry(ensured, channel, room, uuid,
                                          AnnounceEntry(old, candidates, session_description))
                /\ resp' = [op |-> "announce", result |-> [status |-> "Ok"]]
                /\ announced' = [announced EXCEPT ![<<channel, room, uuid>>] = Append(@, candidates)]
                /\ last_announce' = [last_announce EXCEPT ![<<channel, room, uuid>>] = now]
    /\ swept_empty' = swept_empty \ {<<channel, room>>}
    /\ UNCHANGED <<now, sweeper, n_tick>>
    /\ UNCHANGED <<clientVars, connVars>>

\* The sweeper task, lines 143-161.  It sleeps, takes the write lock, visits
\* every room of every channel reading the clock anew for each, drops the
\* channels left without a room, and releases the lock at the end of the
\* iteration.
SweeperWake ==
    /\ sweeper.pc = "sleeping"
    /\ now - sweeper.slept_from >= SweepInterval
    /\ sweeper' = [pc |-> "sweeping", slept_from |-> sweeper.slept_from,
                   pending |-> {cr \in ChannelNames \X RoomNames : HasRoom(room_map, cr[1], cr[2])}]
    /\ resp' = NoResp
    /\ UNCHANGED <<room_map, now, n_announce, n_tick, announced, last_announce, swept_empty>>
    /\ UNCHANGED <<clientVars, connVars>>

\* A retain with the test the wrong way round: it keeps the expired entries.
RetainRoomInverted(room, t) ==
    MapRetain(room, {u \in DOMAIN room : t - room[u].init_time >= TTL})

\* A retain that also keeps an entry aged exactly the TTL.
RetainRoomInclusive(room, t) ==
    MapRetain(room, {u \in DOMAIN room : t - room[u].init_time <= TTL})

\* room.retain(|_, v| now - v.init_time < 60)
RetainRoom(room, t) ==
    MapRetain(room, {u \in DOMAIN room : t - room[u].init_time < TTL})

SweepRoom(channel, room) ==
    /\ sweeper.pc = "sweeping"
    /\ <<channel, room>> \in sweeper.pending
    /\ LET kept == RetainRoom(room_map[channel][room], now) IN
       /\ room_map' = MapPut(room_map, channel, MapPut(room_map[channel], room, kept))
       /\ swept_empty' = IF DOMAIN room_map[channel][room] # {} /\ DOMAIN kept = {}
                         THEN swept_empty \cup {<<channel, room>>}
                         ELSE swept_empty
    /\ sweeper' = [sweeper EXCEPT !.pending = @ \ {<<channel, room>>}]
    /\ announced' = Forget(announced, room_map', <<>>)
    /\ last_announce' = Forget(last_announce, room_map', -1)
    /\ UNCHANGED <<now, resp, n_announce, n_tick>>
    /\ UNCHANGED <<clientVars, connVars>>

\* room_map.0.retain(|_, v| !v.0.is_empty()): v is a channel's SocketRooms.
RetainChannels(m) ==
    MapRetain(m, {ch \in DOMAIN m : DOMAIN m[ch] # {}})

SweepFinish ==
    /\ sweeper.pc = "sweeping"
    /\ sweeper.pending = {}
    /\ room_map' = RetainChannels(room_map)
    /\ sweeper' = [pc |-> "sleeping", slept_from |-> now, pending |-> {}]
    /\ UNCHANGED <<now, resp, n_announce, n_tick, announced, last_announce, swept_empty>>
    /\ UNCHANGED <<clientVars, connVars>>

\* The routes the relay mounts (lines 54, 71, 84, 95-99): method, path, the
\* query parameters the handler takes (each a String, so each required), and
\* whether the handler takes a Json<BroadcastCandidateArgs> body.
Routes ==
    {[op |-> "get_room_candidate", method |-> "GET", path |-> "/candidate",
      query |-> {"channel", "room", "candidate_id"}, data |-> "none"],
     [op |-> "get_candidates_in_room", method |-> "GET", path |-> "/all_candidates",
      query |-> {"channel", "room"}, data |-> "none"],
     [op |-> "get_rooms", method |-> "GET", path |-> "/rooms",
      query |-> {"channel"}, data |-> "none"],
     [op |-> "broadcast_candidate", method |-> "POST", path |-> "/announce",
      query |-> {"channel", "room", "peer_id"}, data |-> "BroadcastCandidateArgs"]}

\* A request body deserializes as BroadcastCandidateArgs when it is a JSON
\* object with a `candidates` member (session_description is an Option).
IsBroadcastCandidateArgs(body) ==
    body.json = "object" /\ "candidates" \in DOMAIN body.value

\* The handler a request reaches: method and path are the route's, every
\* query parameter of the route is present and the data guard accepts the
\* body.  "none" when no route takes it (the relay answers 404 or 422 and
\* no handler runs).
RouteOf(req) ==
    LET matching == {r \in Routes :
                        /\ r.method = req.method
                        /\ r.path = req.path
                        /\ r.query \subseteq DOMAIN req.query
                        /\ r.data = "BroadcastCandidateArgs" => IsBroadcastCandidateArgs(req.body)}
    IN  IF matching = {} THEN "none" ELSE (CHOOSE r \in matching : TRUE).op

-----------------------------------------------------------------------------
(* The relay client: src/signal_server.rs *)

ClientBatches == {<<"x", "y">>}

NoBody == [json |-> "none", value |-> <<>>]

\* announce_self, lines 34-46: POST /announce, the query keys channel, room
\* and token, the slice of candidates as the JSON body.
AnnounceSelfRequest(channel, room, p2p_id, ice_candidate) ==
    [method |-> "POST", path |-> "/announce",
     query |-> [k \in {"channel", "room", "token"} |->
                  CASE k = "channel" -> channel [] k = "room" -> room [] OTHER -> p2p_id],
     body |-> [json |-> "array", value |-> ice_candidate]]

\* get_candidates_in_room of the client, lines 56-67: GET /allCandidates with
\* the query keys channel and room.
GetCandidatesInRoomRequest(channel, room) ==
    [method |-> "GET", path |-> "/allCandidates",
     query |-> [k \in {"channel", "room"} |-> IF k = "channel" THEN channel ELSE room],
     body |-> NoBody]

\* Lines 69-73: the response body read as Vec<String>, each string parsed as
\* a Uuid and the failures left out.
DecodePeerIds(response) ==
    IF response.json # "array" THEN [status |-> "Err"]
    ELSE LET parsed == [i \in DOMAIN response.body |-> ParseUuid(response.body[i])]
         IN  [status |-> "Ok", body |-> SelectSeq(parsed, LAMBDA u : u # Invalid)]

\* SignalServerClient::announce_self.  send() fails on a transport error
\* only: whatever status the relay answers, the call returns Ok(()).
announce_self(channel, room, p2p_id, ice_candidate) ==
    LET req == AnnounceSelfRequest(channel, room, p2p_id, ice_candidate) IN
    IF RouteOf(req) = "broadcast_candidate"
    THEN /\ broadcast_candidate(req.query.channel, req.query.room, req.query.peer_id,
                                req.body.value.candidates, None)
    ELSE /\ resp' = [op |-> "announce_self", routed |-> RouteOf(req),
                     result |-> [status |-> "Ok"]]
         /\ UNCHANGED <<room_map, now, sweeper, n_announce, n_tick,
                        announced, last_announce, swept_empty>>
         /\ UNCHANGED <<clientVars, connVars>>

\* SignalServerClient::get_candidates_in_room.  The body of an answer no
\* handler produced is the relay's error page, not a JSON array.
client_get_candidates_in_room(channel, room) ==
    LET req == GetCandidatesInRoomRequest(channel, room) IN
    /\ \/ /\ \/ RouteOf(req) # "get_candidates_in_room"
             \/ LockFree /\ ~HasRoom(room_map, channel, room)
          /\ resp' = [op |-> "client_get_candidates_in_room", routed |-> RouteOf(req),
                      result |-> DecodePeerIds([json |-> "error", body |-> <<>>])]
       \/ /\ RouteOf(req) = "get_candidates_in_room"
          /\ LockFree
          /\ HasRoom(room_map, channel, room)
          /\ \E order \in Orders(DOMAIN room_map[channel][room]) :
                resp' = [op |-> "client_get_candidates_in_room", routed |-> RouteOf(req),
                         result |-> DecodePeerIds(
                             [json |-> "string",
                              body |-> [i \in DOMAIN order |-> UuidToString(order[i])]])]
    /\ UNCHANGED <<room_map, now, sweeper, n_announce, n_tick,
                   announced, last_announce, swept_empty>>
    /\ UNCHANGED <<clientVars, connVars>>

\* The clock moves on.
Tick(d) ==
    /\ n_tick < MaxTicks
    /\ n_tick' = n_tick + 1
    /\ now' = now + d
    /\ UNCHANGED <<room_map, sweeper, resp, n_announce, announced, last_announce, swept_empty>>
    /\ UNCHANGED <<clientVars, connVars>>

InitRelay ==
    /\ room_map = EmptyMap
    /\ now = 0
    /\ sweeper = [pc |-> "sleeping", slept_from |-> 0, pending |-> {}]
    /\ resp = NoResp
    /\ n_announce = 0
    /\ n_tick = 0
    /\ announced = [k \in Keys |-> <<>>]
    /\ last_announce = [k \in Keys |-> -1]
    /\ swept_empty = {}

NextRelay ==
    \/ \E channel \in ChannelNames, room \in RoomNames, peer_id \in PeerIdStrings,
          args \in Bodies :
            broadcast_candidate(channel, room, peer_id, args.candidates, args.session_description)
    \/ \E channel \in ChannelNames, room \in RoomNames, candidate_id \in PeerIdStrings :
            get_room_candidate(channel, room, candidate_id)
    \/ \E channel \in ChannelNames, room \in RoomNames : get_candidates_in_room(channel, room)
    \/ \E channel \in ChannelNames : get_rooms(channel)
    \/ SweeperWake
    \/ \E channel \in ChannelNames, room \in RoomNames : SweepRoom(channel, room)
    \/ SweepFinish
    \/ \E d \in TickSteps : Tick(d)

-----------------------------------------------------------------------------
(* Teardown of a P2PConnection: src/p2p_connection.rs *)

\* A P2PConnection that is not torn down: neither close has been called.
OpenEngine ==
    [data_channel |-> FALSE, data_channel_closed |-> 0, connection_closed |-> 0,
     close_order |-> <<>>]

\* Drop for P2PConnection: data_channel.close(), then connection.close(); the
\* result of either is discarded.
DropConnection(c) ==
    [c EXCEPT !.data_channel_closed = @ + 1,
              !.connection_closed = @ + 1,
              !.close_order = @ \o <<"data_channel", "connection">>]

IsClosed(c) ==
    /\ c.connection_closed >= 1
    /\ c.data_channel => c.data_channel_closed >= 1

-----------------------------------------------------------------------------
(* The acceptor loop: src/p2p_client.rs *)

TaskIds == 1..MaxTasks

AwaitPoints == {"new_peer_connection", "create_data_channel", "broadcast_offer"}

Running(t) == tasks[t].pc \in AwaitPoints

\* The registry Vec lives as long as one Arc to it does: the client's, or the
\* clone a task that has not returned holds.
RegistryAlive(alive, ts) ==
    alive \/ \E t \in TaskIds : ts[t].pc \in AwaitPoints

\* When the last Arc goes, the Vec is dropped and every P2PConnection in it
\* with it.
ReleaseRegistry(es, alive, ts) ==
    IF RegistryAlive(alive, ts) THEN es
    ELSE [e \in DOMAIN es |->
            IF e \in Range(active_connections) /\ ~IsClosed(es[e])
            THEN DropConnection(es[e]) ELSE es[e]]

\* P2PClient::accept_connections: clones the shared state, spawns the loop and
\* stores its JoinHandle over the one it held.
accept_connections ==
    /\ client_alive
    /\ \E t \in TaskIds :
          /\ tasks[t].pc = "unspawned"
          /\ \A u \in TaskIds : u < t => tasks[u].pc # "unspawned"
          /\ tasks' = [tasks EXCEPT ![t] = [pc |-> "new_peer_connection", connection |-> 0, result |-> "none"]]
          /\ connection_listener_handle' = t
    /\ UNCHANGED <<max_connections, has_pending_connection, active_connections,
                   client_alive, engines, in_flight_at_cancel>>
    /\ UNCHANGED <<relayVars, connVars>>

\* Line 35, the constructor's first await (p2p_connection.rs line 59):
\* new_peer_connection returned an engine, which the constructor's future
\* holds as a local.
NewPeerConnectionOk(t) ==
    /\ tasks[t].pc = "new_peer_connection"
    /\ engines' = Append(engines, OpenEngine)
    /\ tasks' = [tasks EXCEPT ![t] = [pc |-> "create_data_channel",
                                     connection |-> Len(engines) + 1, result |-> "none"]]
    /\ UNCHANGED <<max_connections, has_pending_connection, active_connections,
                   connection_listener_handle, client_alive, in_flight_at_cancel>>
    /\ UNCHANGED <<relayVars, connVars>>

\* Line 35: new_peer_connection failed; `?` ends the constructor and the task
\* with the error.
NewPeerConnectionErr(t) ==
    /\ tasks[t].pc = "new_peer_connection"
    /\ tasks' = [tasks EXCEPT ![t] = [pc |-> "done", connection |-> 0, result |-> "Err"]]
    /\ engines' = ReleaseRegistry(engines, client_alive, tasks')
    /\ UNCHANGED <<max_connections, has_pending_connection, active_connections,
                   connection_listener_handle, client_alive, in_flight_at_cancel>>
    /\ UNCHANGED <<relayVars, connVars>>

\* Lines 35-36, the constructor's second await (p2p_connection.rs lines
\* 60-68, 110-118): create_data_channel returned, the P2PConnection is built
\* around engine and channel, and the flag is set.
CreateDataChannelOk(t) ==
    /\ tasks[t].pc = "create_data_channel"
    /\ engines' = [engines EXCEPT ![tasks[t].connection].data_channel = TRUE]
    /\ has_pending_connection' = TRUE
    /\ tasks' = [tasks EXCEPT ![t].pc = "broadcast_offer"]
    /\ UNCHANGED <<max_connections, active_connections, connection_listener_handle,
                   client_alive, in_flight_at_cancel>>
    /\ UNCHANGED <<relayVars, connVars>>

\* Line 35: create_data_channel failed; `?` ends the constructor and the
\* task.  The engine is a bare RTCPeerConnection local: it is dropped, and
\* nothing calls close on it.
CreateDataChannelErr(t) ==
    /\ tasks[t].pc = "create_data_channel"
    /\ tasks' = [tasks EXCEPT ![t] = [pc |-> "done", connection |-> 0, result |-> "Err"]]
    /\ engines' = ReleaseRegistry(engines, client_alive, tasks')
    /\ UNCHANGED <<max_connections, has_pending_connection, active_connections,
                   connection_listener_handle, client_alive, in_flight_at_cancel>>
    /\ UNCHANGED <<relayVars, connVars>>

\* Lines 38-40: broadcast_offer failed; `?` ends the task, and the connection,
\* a local of the loop body, is dropped.
BroadcastOfferErr(t) ==
    /\ tasks[t].pc = "broadcast_offer"
    /\ tasks' = [tasks EXCEPT ![t] = [pc |-> "done", connection |-> 0, result |-> "Err"]]
    /\ engines' = ReleaseRegistry(
                      [engines EXCEPT ![tasks[t].connection] = DropConnection(@)],
                      client_alive, tasks')
    /\ UNCHANGED <<max_connections, has_pending_connection, active_connections,
                   connection_listener_handle, client_alive, in_flight_at_cancel>>
    /\ UNCHANGED <<relayVars, connVars>>

\* Lines 47-55: the loop ends once the count it read under the lock has
\* reached max_connections.
LoopBreaks(active_connection_count, max) == active_connection_count >= max

\* Lines 38-56: broadcast_offer succeeded; under the write lock the connection
\* is pushed and the length read; the loop breaks or goes round.
BroadcastOfferOk(t) ==
    /\ tasks[t].pc = "broadcast_offer"
    /\ active_connections' = Append(active_connections, tasks[t].connection)
    /\ LET active_connection_count == Len(active_connections') IN
       tasks' = [tasks EXCEPT ![t] =
                    IF LoopBreaks(active_connection_count, max_connections)
                    THEN [pc |-> "done", connection |-> 0, result |-> "Ok"]
                    ELSE [pc |-> "new_peer_connection", connection |-> 0, result |-> "none"]]
    /\ engines' = IF RegistryAlive(client_alive, tasks') THEN engines
                  ELSE [e \in DOMAIN engines |->
                          IF e \in Range(active_connections') /\ ~IsClosed(engines[e])
                          THEN DropConnection(engines[e]) ELSE engines[e]]
    /\ UNCHANGED <<max_connections, has_pending_connection, connection_listener_handle,
                   client_alive, in_flight_at_cancel>>
    /\ UNCHANGED <<relayVars, connVars>>

\* P2PClient::has_pending_connection, lines 66-70: a load of the flag.
HasPendingConnectionResult == has_pending_connection

\* P2PClient::active_connections_count, lines 72-78: the length of the Vec.
ActiveConnectionsCountResult == Len(active_connections)

\* The P2PClient goes out of scope.  The struct has no Drop of its own: its
\* fields are dropped, and a dropped JoinHandle detaches its task.
DropClient ==
    /\ client_alive
    /\ client_alive' = FALSE
    /\ connection_listener_handle' = 0
    /\ engines' = ReleaseRegistry(engines, FALSE, tasks)
    /\ UNCHANGED <<max_connections, has_pending_connection, active_connections, tasks,
                   in_flight_at_cancel>>
    /\ UNCHANGED <<relayVars, connVars>>

\* The task is cancelled (the runtime shuts down, or the JoinHandle is
\* aborted): its future is dropped at the await it is suspended on, and the
\* locals it holds with it.  Inside the constructor the local is the bare
\* engine, which has no Drop that closes it; at lines 38-40 it is the
\* P2PConnection, whose Drop runs.
AbortTask(t) ==
    /\ Running(t)
    /\ tasks' = [tasks EXCEPT ![t] = [pc |-> "done", connection |-> 0, result |-> "Cancelled"]]
    /\ engines' = ReleaseRegistry(
                      IF tasks[t].pc = "broadcast_offer"
                      THEN [engines EXCEPT ![tasks[t].connection] = DropConnection(@)]
                      ELSE engines,
                      client_alive, tasks')
    /\ in_flight_at_cancel' = IF tasks[t].pc \in {"create_data_channel", "broadcast_offer"}
                              THEN in_flight_at_cancel \cup {tasks[t].connection}
                              ELSE in_flight_at_cancel
    /\ UNCHANGED <<max_connections, has_pending_connection, active_connections,
                   connection_listener_handle, client_alive>>
    /\ UNCHANGED <<relayVars, connVars>>

\* P2PClientBuilder::build, with max_connections as with_max_connections set it.
InitClient ==
    /\ max_connections \in 0..MaxConnections
    /\ has_pending_connection = FALSE
    /\ active_connections = <<>>
    /\ connection_listener_handle = 0
    /\ client_alive = TRUE
    /\ tasks = [t \in TaskIds |-> [pc |-> "unspawned", connection |-> 0, result |-> "none"]]
    /\ engines = <<>>
    /\ in_flight_at_cancel = {}

\* The client at rest, for the specifications of the other components.
RestClient ==
    /\ max_connections = 0
    /\ has_pending_connection = FALSE
    /\ active_connections = <<>>
    /\ connection_listener_handle = 0
    /\ client_alive = TRUE
    /\ tasks = [t \in TaskIds |-> [pc |-> "unspawned", connection |-> 0, result |-> "none"]]
    /\ engines = <<>>
    /\ in_flight_at_cancel = {}

NextClient ==
    \/ accept_connections
    \/ \E t \in TaskIds : NewPeerConnectionOk(t)
    \/ \E t \in TaskIds : NewPeerConnectionErr(t)
    \/ \E t \in TaskIds : CreateDataChannelOk(t)
    \/ \E t \in TaskIds : CreateDataChannelErr(t)
    \/ \E t \in TaskIds : BroadcastOfferOk(t)
    \/ \E t \in TaskIds : BroadcastOfferErr(t)
    \/ DropClient
    \/ \E t \in TaskIds : AbortTask(t)

-----------------------------------------------------------------------------
(* P2PConnection: src/p2p_connection.rs.  The peer-connection engine is the  *)
(* webrtc crate's RTCPeerConnection; of it the model keeps the signaling     *)
(* state, the two descriptions and the remote candidates it was given, and   *)
(* its rules for accepting a description (an offer when stable, an answer    *)
(* to an outstanding offer) and a remote candidate (only once a remote       *)
(* description is set), as tests::test_facilitate_p2p_connection drives it.  *)

ConnIds == {"A", "B"}

SessionDescriptions == [sdp_type : {"offer", "answer"}, origin : ConnIds]

CandidateLists == {<<>>, <<"x">>, <<"x", "y">>}

PeerConnectionStates ==
    {"new", "connecting", "connected", "disconnected", "failed", "closed"}

\* No description set: local_description() and remote_description() are None.
NoDescription == [sdp_type |-> "none", origin |-> "none"]

\* P2PConnection::new, lines 79, 95, 110-118.
NewConnection ==
    [signaling_state |-> "stable",
     local_description |-> NoDescription,
     remote_description |-> NoDescription,
     remote_candidates |-> <<>>,
     ice_candidates |-> <<>>,
     connected |-> FALSE,
     dropped |-> FALSE,
     data_channel_closed |-> 0,
     connection_closed |-> 0,
     close_order |-> <<>>]

Fail(c) == [ok |-> FALSE, conn |-> c]
Pass(c) == [ok |-> TRUE, conn |-> c]

\* connection.create_offer(None)
EngineCreateOffer(id, c) ==
    IF c.signaling_state = "closed" THEN [ok |-> FALSE]
    ELSE [ok |-> TRUE, description |-> [sdp_type |-> "offer", origin |-> id]]

\* connection.create_answer(None)
EngineCreateAnswer(id, c) ==
    IF c.remote_description = NoDescription \/ c.signaling_state # "have-remote-offer"
    THEN [ok |-> FALSE]
    ELSE [ok |-> TRUE, description |-> [sdp_type |-> "answer", origin |-> id]]

\* connection.set_local_description(d)
EngineSetLocalDescription(c, d) ==
    IF d.sdp_type = "offer" /\ c.signaling_state \in {"stable", "have-local-offer"}
    THEN Pass([c EXCEPT !.signaling_state = "have-local-offer", !.local_description = d])
    ELSE IF d.sdp_type = "answer" /\ c.signaling_state = "have-remote-offer"
    THEN Pass([c EXCEPT !.signaling_state = "stable", !.local_description = d])
    ELSE Fail(c)

\* connection.set_remote_description(d)
EngineSetRemoteDescription(c, d) ==
    IF d.sdp_type = "offer" /\ c.signaling_state \in {"stable", "have-remote-offer"}
    THEN Pass([c EXCEPT !.signaling_state = "have-remote-offer", !.remote_description = d])
    ELSE IF d.sdp_type = "answer" /\ c.signaling_state = "have-local-offer"
    THEN Pass([c EXCEPT !.signaling_state = "stable", !.remote_description = d])
    ELSE Fail(c)

\* connection.add_ice_candidate(candidate)
EngineAddIceCandidate(c, candidate) ==
    IF c.remote_description = NoDescription \/ c.signaling_state = "closed"
    THEN Fail(c)
    ELSE Pass([c EXCEPT !.remote_candidates = Append(@, candidate)])

Call(id) ==
    /\ ~conns[id].dropped
    /\ n_calls < MaxCalls
    /\ n_calls' = n_calls + 1
    /\ UNCHANGED n_events
    /\ UNCHANGED <<relayVars, clientVars>>

\* get_offer, lines 124-135
GetOfferResult(id, c) ==
    LET offer == EngineCreateOffer(id, c) IN
    IF ~offer.ok THEN [status |-> "Err", conn |-> c]
    ELSE LET set == EngineSetLocalDescription(c, offer.description) IN
         IF ~set.ok THEN [status |-> "Err", conn |-> set.conn]
         ELSE IF set.conn.local_description = NoDescription THEN [status |-> "Err", conn |-> set.conn]
         ELSE [status |-> "Ok", value |-> set.conn.local_description, conn |-> set.conn]

get_offer(id) ==
    /\ Call(id)
    /\ LET r == GetOfferResult(id, conns[id]) IN
       /\ conns' = [conns EXCEPT ![id] = r.conn]
       /\ ret' = [op |-> "get_offer"] @@ [x \in DOMAIN r \ {"conn"} |-> r[x]]

\* set_answer, lines 137-140
SetAnswerResult(c, description) ==
    LET set == EngineSetRemoteDescription(c, description) IN
    IF ~set.ok THEN [status |-> "Err", conn |-> set.conn]
    ELSE [status |-> "Ok", conn |-> set.conn]

set_answer(id, description) ==
    /\ Call(id)
    /\ LET r == SetAnswerResult(conns[id], description) IN
       /\ conns' = [conns EXCEPT ![id] = r.conn]
       /\ ret' = [op |-> "set_answer", status |-> r.status]

\* A get_answer that hands the answer back without setting it as the local
\* description.
GetAnswerResultNoSetLocal(id, c, offer) ==
    LET remote == EngineSetRemoteDescription(c, offer) IN
    IF ~remote.ok THEN [status |-> "Err", conn |-> remote.conn]
    ELSE LET answer == EngineCreateAnswer(id, remote.conn) IN
         IF ~answer.ok THEN [status |-> "Err", conn |-> remote.conn]
         ELSE [status |-> "Ok", value |-> answer.description, conn |-> remote.conn]

\* get_answer, lines 143-160
GetAnswerResult(id, c, offer) ==
    LET remote == EngineSetRemoteDescription(c, offer) IN
    IF ~remote.ok THEN [status |-> "Err", conn |-> remote.conn]
    ELSE LET answer == EngineCreateAnswer(id, remote.conn) IN
         IF ~answer.ok THEN [status |-> "Err", conn |-> remote.conn]
         ELSE LET local == EngineSetLocalDescription(remote.conn, answer.description) IN
              IF ~local.ok THEN [status |-> "Err", conn |-> local.conn]
              ELSE IF local.conn.local_description = NoDescription
              THEN [status |-> "Err", conn |-> local.conn]
              ELSE [status |-> "Ok", value |-> local.conn.local_description,
                    conn |-> local.conn]

get_answer(id, offer) ==
    /\ Call(id)
    /\ LET r == GetAnswerResult(id, conns[id], offer) IN
       /\ conns' = [conns EXCEPT ![id] = r.conn]
       /\ ret' = [op |-> "get_answer"] @@ [x \in DOMAIN r \ {"conn"} |-> r[x]]

\* set_candidates, lines 162-170: each candidate is handed to the engine in
\* turn, and the first error ends the call.
RECURSIVE SetCandidatesResult(_, _)
SetCandidatesResult(c, candidates) ==
    IF candidates = <<>> THEN [status |-> "Ok", conn |-> c]
    ELSE LET added == EngineAddIceCandidate(c, Head(candidates)) IN
         IF ~added.ok THEN [status |-> "Err", conn |-> added.conn]
         ELSE SetCandidatesResult(added.conn, Tail(candidates))

set_candidates(id, candidates) ==
    /\ Call(id)
    /\ LET r == SetCandidatesResult(conns[id], candidates) IN
       /\ conns' = [conns EXCEPT ![id] = r.conn]
       /\ ret' = [op |-> "set_candidates", status |-> r.status]

\* get_pending_candidates, lines 174-180: a clone of the list.
get_pending_candidates(id) ==
    /\ Call(id)
    /\ ret' = [op |-> "get_pending_candidates", status |-> "Ok",
               value |-> conns[id].ice_candidates]
    /\ UNCHANGED conns

\* get_is_connected_to_peer, lines 182-184
get_is_connected_to_peer(id) ==
    /\ Call(id)
    /\ ret' = [op |-> "get_is_connected_to_peer", status |-> "Ok",
               value |-> conns[id].connected]
    /\ UNCHANGED conns

Event(id) ==
    /\ ~conns[id].dropped
    /\ n_events < MaxEvents
    /\ n_events' = n_events + 1
    /\ UNCHANGED <<ret, n_calls>>
    /\ UNCHANGED <<relayVars, clientVars>>

\* A callback that keeps the latest candidate only.
OnIceCandidateReplace(c, candidate) ==
    IF candidate = None THEN c
    ELSE [c EXCEPT !.ice_candidates = <<candidate>>]

\* The on_ice_candidate callback, lines 99-108: Some(candidate) is pushed,
\* None (the end of gathering) is not.
OnIceCandidate(c, candidate) ==
    IF candidate = None THEN c
    ELSE [c EXCEPT !.ice_candidates = Append(@, candidate)]

on_ice_candidate(id, candidate) ==
    /\ Event(id)
    /\ conns' = [conns EXCEPT ![id] = OnIceCandidate(@, candidate)]

\* A callback that sets the flag on `connected` and never clears it.
OnPeerConnectionStateChangeSticky(c, state) ==
    [c EXCEPT !.connected = @ \/ (state = "connected")]

\* The on_peer_connection_state_change callback, lines 81-93.
OnPeerConnectionStateChange(c, state) ==
    [c EXCEPT !.connected = (state = "connected")]

on_peer_connection_state_change(id, state) ==
    /\ Event(id)
    /\ conns' = [conns EXCEPT ![id] = OnPeerConnectionStateChange(@, state)]

\* What a close call of the engine may answer.
CloseResults == {"Ok", "Err"}

\* A teardown that gives up at the first close that fails, and hands the
\* error on.
DropResultStopsOnError(c, data_channel_close, connection_close) ==
    IF data_channel_close = "Err"
    THEN [conn |-> [c EXCEPT !.data_channel_closed = @ + 1,
                             !.close_order = Append(@, "data_channel")],
          propagated |-> "Err"]
    ELSE [conn |-> DropConnection(c), propagated |-> connection_close]

\* Drop for P2PConnection, lines 189-194, with what the two closes answer:
\* `let _ =` discards either result, and drop returns nothing.
DropResult(c, data_channel_close, connection_close) ==
    [conn |-> DropConnection(c), propagated |-> "Ok"]

\* Drop for P2PConnection, lines 187-196; a closed engine's signaling state
\* is closed.
drop(id) ==
    /\ ~conns[id].dropped
    /\ \E data_channel_close \in CloseResults, connection_close \in CloseResults :
          LET r == DropResult(conns[id], data_channel_close, connection_close) IN
          /\ conns' = [conns EXCEPT ![id] =
                          [r.conn EXCEPT !.dropped = TRUE, !.signaling_state = "closed"]]
          /\ ret' = [op |-> "drop", status |-> r.propagated,
                     data_channel_close |-> data_channel_close,
                     connection_close |-> connection_close]
    /\ UNCHANGED <<n_calls, n_events>>
    /\ UNCHANGED <<relayVars, clientVars>>

NoRet == [op |-> "none", status |-> "none"]

InitConn ==
    /\ conns = [id \in ConnIds |-> NewConnection]
    /\ ret = NoRet
    /\ n_calls = 0
    /\ n_events = 0

NextConn ==
    \/ \E id \in ConnIds : get_offer(id)
    \/ \E id \in ConnIds, d \in SessionDescriptions : set_answer(id, d)
    \/ \E id \in ConnIds, d \in SessionDescriptions : get_answer(id, d)
    \/ \E id \in ConnIds, candidates \in CandidateLists : set_candidates(id, candidates)
    \/ \E id \in ConnIds : get_pending_candidates(id)
    \/ \E id \in ConnIds : get_is_connected_to_peer(id)
    \/ \E id \in ConnIds, candidate \in Candidates \cup {None} : on_ice_candidate(id, candidate)
    \/ \E id \in ConnIds, state \in PeerConnectionStates :
            on_peer_connection_state_change(id, state)
    \/ \E id \in ConnIds : drop(id)

-----------------------------------------------------------------------------
(* The specifications. *)

InitOfRelay == InitRelay /\ RestClient /\ InitConn

InitOfClient == InitRelay /\ InitClient /\ InitConn

InitOfConn == InitRelay /\ RestClient /\ InitConn

SpecRelay == InitOfRelay /\ [][NextRelay]_vars

\* The relay client talking to the relay: the two calls of the client, and
\* the relay's handlers for an announce and for the lists.
NextWire ==
    \/ \E channel \in ChannelNames, room \in RoomNames, p2p_id \in PeerIdStrings,
          ice_candidate \in ClientBatches :
            announce_self(channel, room, p2p_id, ice_candidate)
    \/ \E channel \in ChannelNames, room \in RoomNames :
            client_get_candidates_in_room(channel, room)
    \/ \E channel \in ChannelNames, room \in RoomNames, peer_id \in PeerIdStrings,
          args \in Bodies :
            broadcast_candidate(channel, room, peer_id, args.candidates, args.session_description)
    \/ \E channel \in ChannelNames, room \in RoomNames : get_candidates_in_room(channel, room)
    \/ \E channel \in ChannelNames : get_rooms(channel)

SpecWire == InitOfRelay /\ [][NextWire]_vars

\* The relay of one channel, its announces, reads of an entry, clock and
\* sweeper.
LiveChannels == {"c1"}

NextRelayLive ==
    \/ \E channel \in LiveChannels, room \in RoomNames, peer_id \in PeerIdStrings,
          args \in Bodies :
            broadcast_candidate(channel, room, peer_id, args.candidates, args.session_description)
    \/ \E channel \in LiveChannels, room \in RoomNames, candidate_id \in PeerIdStrings :
            get_room_candidate(channel, room, candidate_id)
    \/ SweeperWake
    \/ \E channel \in ChannelNames, room \in RoomNames : SweepRoom(channel, room)
    \/ SweepFinish
    \/ \E d \in TickSteps : Tick(d)

\* The relay with its sweeper scheduled fairly: the runtime runs the task when
\* its sleep is over, the write lock is granted in turn, and an iteration
\* that holds the lock runs to its end.
SpecRelayLive ==
    /\ InitOfRelay
    /\ [][NextRelayLive]_vars
    /\ WF_vars(SweeperWake)
    /\ WF_vars(\E channel \in ChannelNames, room \in RoomNames : SweepRoom(channel, room))
    /\ WF_vars(SweepFinish)

SpecClient == InitOfClient /\ [][NextClient]_vars

SpecConn == InitOfConn /\ [][NextConn]_vars

-----------------------------------------------------------------------------
(* Properties of the relay. *)

RECURSIVE Flatten(_)
Flatten(batches) ==
    IF batches = <<>> THEN <<>> ELSE Head(batches) \o Flatten(Tail(batches))

RECURSIVE SumLen(_)
SumLen(batches) ==
    IF batches = <<>> THEN 0 ELSE Len(Head(batches)) + SumLen(Tail(batches))

StoredDescription(m, channel, room, uuid) ==
    IF HasEntry(m, channel, room, uuid) THEN m[channel][room][uuid].session_description ELSE None

\* C1: after N successful announces to one (channel, room, peer id) that no
\* sweep has removed in between, get_room_candidate returns the N batches run
\* together in call order, k_1 + ... + k_N candidates in all.
C1_AnnounceAppends ==
    \A k \in Keys :
        LET got == GetRoomCandidateResult(room_map, k[1], k[2], UuidToString(k[3])) IN
        IF announced[k] = <<>>
        THEN got.status = "NotFound"
        ELSE /\ got.status = "Ok"
             /\ got.body = Flatten(announced[k])
             /\ Len(got.body) = SumLen(announced[k])

C1_Witness ==
    \E k \in Keys :
        /\ announced[k] = << <<"x", "y">>, <<"y">> >>
        /\ room_map[k[1]][k[2]][k[3]].candidate = <<"x", "y", "y">>

\* C2: a sweep never removes an entry whose most recent announce is younger
\* than TTL at the time the sweep reads the clock, however old the entry is.
C2_ReannounceKeepsEntry ==
    [][\A k \in Keys :
          (/\ HasEntry(room_map, k[1], k[2], k[3])
           /\ last_announce[k] >= 0
           /\ now - last_announce[k] < TTL)
          => HasEntry(room_map', k[1], k[2], k[3])]_vars

\* C3: a room whose entries a sweep removed to the last one is gone: get_rooms
\* of its channel does not list it and get_candidates_in_room reports
\* NotFound for it.
C3_SweptRoomIsAbsent ==
    [][/\ \A channel \in ChannelNames :
            get_rooms(channel) =>
                \A room \in RoomNames :
                    <<channel, room>> \in swept_empty =>
                        \/ resp'.result.status = "NotFound"
                        \/ room \notin Range(resp'.result.body)
       /\ \A channel \in ChannelNames, room \in RoomNames :
            (get_candidates_in_room(channel, room) /\ <<channel, room>> \in swept_empty)
                => resp'.result.status = "NotFound"]_vars

\* C4: get_room_candidate returns the candidates announced to that entry, in
\* announce order, when the entry is stored, and NotFound when the channel,
\* the room or the peer id is not.
C4_GetCandidates ==
    [][\A channel \in ChannelNames, room \in RoomNames, candidate_id \in PeerIdStrings :
          get_room_candidate(channel, room, candidate_id) =>
              LET uuid == ParseUuid(candidate_id) IN
              IF uuid # Invalid /\ announced[<<channel, room, uuid>>] # <<>>
              THEN resp'.result = [status |-> "Ok",
                                   body |-> Flatten(announced[<<channel, room, uuid>>])]
              ELSE resp'.result = [status |-> "NotFound"]]_vars

\* get_room_candidate has answered with one peer's candidates while the same
\* room holds another peer with different ones.
C4_Witness ==
    /\ resp.op = "get_room_candidate"
    /\ resp.result = [status |-> "Ok", body |-> <<"x", "y">>]
    /\ \E k \in Keys :
          /\ HasEntry(room_map, k[1], k[2], "a1")
          /\ HasEntry(room_map, k[1], k[2], "b2")
          /\ room_map[k[1]][k[2]]["a1"].candidate = <<"y">>
          /\ room_map[k[1]][k[2]]["b2"].candidate = <<"x", "y">>

\* C5: an announce replaces the stored description if and only if it carries
\* one; an announce without one leaves the stored description as it was.
C5_DescriptionReplacedIffCarried ==
    [][\A channel \in ChannelNames, room \in RoomNames, peer_id \in PeerIdStrings,
          args \in Bodies :
          (/\ broadcast_candidate(channel, room, peer_id, args.candidates, args.session_description)
           /\ ParseUuid(peer_id) # Invalid)
          => StoredDescription(room_map', channel, room, ParseUuid(peer_id))
                = IF args.session_description # None
                  THEN args.session_description
                  ELSE StoredDescription(room_map, channel, room, ParseUuid(peer_id))]_vars

\* C11: every request of the relay client is one the relay routes to the
\* matching handler: announce_self reaches broadcast_candidate with the query
\* keys channel, room and peer_id and a {candidates, session_description}
\* body, and get_candidates_in_room of the client reaches the relay's
\* get_candidates_in_room and, for a stored room, returns one peer id per
\* peer of the room.
C11_WireContract ==
    [][/\ \A channel \in ChannelNames, room \in RoomNames, p2p_id \in PeerIdStrings,
            ice_candidate \in ClientBatches :
            announce_self(channel, room, p2p_id, ice_candidate)
            => LET req == AnnounceSelfRequest(channel, room, p2p_id, ice_candidate) IN
               /\ DOMAIN req.query = {"channel", "room", "peer_id"}
               /\ IsBroadcastCandidateArgs(req.body)
               /\ RouteOf(req) = "broadcast_candidate"
       /\ \A channel \in ChannelNames, room \in RoomNames :
            client_get_candidates_in_room(channel, room)
            => /\ RouteOf(GetCandidatesInRoomRequest(channel, room)) = "get_candidates_in_room"
               /\ HasRoom(room_map, channel, room)
                  => /\ resp'.result.status = "Ok"
                     /\ Len(resp'.result.body) = Cardinality(DOMAIN room_map[channel][room])
                     /\ Range(resp'.result.body) = DOMAIN room_map[channel][room]]_vars

\* C12: an announce whose peer_id is no uuid is answered 400 and leaves the
\* store as it was: no channel, room or entry is created, so a channel or
\* room that was absent is absent afterwards.
C12_InvalidPeerIdLeavesStore ==
    [][\A channel \in ChannelNames, room \in RoomNames, peer_id \in PeerIdStrings,
          args \in Bodies :
          (/\ broadcast_candidate(channel, room, peer_id, args.candidates, args.session_description)
           /\ ParseUuid(peer_id) = Invalid)
          => /\ resp'.result.status = "BadRequest"
             /\ room_map' = room_map
             /\ HasChannel(room_map', channel) = HasChannel(room_map, channel)
             /\ HasRoom(room_map', channel, room) = HasRoom(room_map, channel, room)]_vars

\* C13: the sweep of a room at time now removes exactly the entries whose
\* timestamp ts has now - ts >= 60 and keeps the others as they are,
\* candidates, description and timestamp; it touches no other room, and the
\* end of the iteration changes no entry.
C13_SweepRemovesExactlyExpired ==
    [][/\ \A channel \in ChannelNames, room \in RoomNames :
            SweepRoom(channel, room)
            => LET old == room_map[channel][room]
                   new == room_map'[channel][room]
               IN  /\ DOMAIN new = DOMAIN old \ {u \in DOMAIN old : now - old[u].init_time >= 60}
                   /\ \A u \in DOMAIN new : new[u] = old[u]
                   /\ \A k \in Keys :
                        (<<k[1], k[2]>> # <<channel, room>> /\ HasEntry(room_map, k[1], k[2], k[3]))
                        => /\ HasEntry(room_map', k[1], k[2], k[3])
                           /\ room_map'[k[1]][k[2]][k[3]] = room_map[k[1]][k[2]][k[3]]
       /\ SweepFinish
            => \A k \in Keys :
                  HasEntry(room_map', k[1], k[2], k[3]) = HasEntry(room_map, k[1], k[2], k[3])
                  /\ (HasEntry(room_map, k[1], k[2], k[3])
                      => room_map'[k[1]][k[2]][k[3]] = room_map[k[1]][k[2]][k[3]])]_vars

\* One iteration has visited every room: the entry of room r1, aged exactly
\* 60, is gone, and the entry of room r2, aged 59, is kept with its
\* candidates.
C13_Witness ==
    /\ sweeper.pc = "sweeping"
    /\ sweeper.pending = {}
    /\ <<"c1", "r1">> \in swept_empty
    /\ HasEntry(room_map, "c1", "r2", "b2")
    /\ now - room_map["c1"]["r2"]["b2"].init_time = 59
    /\ room_map["c1"]["r2"]["b2"].candidate = <<"x", "y">>
    /\ room_map["c1"]["r2"]["b2"].session_description = "offer"

\* The next iteration of the sweeper visits the room: its sleep is over, or
\* it is sweeping and has the room still before it.
SweepDue(channel, room) ==
    \/ sweeper.pc = "sleeping" /\ now - sweeper.slept_from >= SweepInterval
    \/ sweeper.pc = "sweeping" /\ <<channel, room>> \in sweeper.pending

\* C14: with the sweeper scheduled fairly, an entry that time has carried
\* past the TTL, and that the sweeper is due to visit, is eventually removed
\* (whether or not it is announced again), and get_room_candidate for it then
\* answers NotFound.
C14_ExpiredEntryEventuallyRemoved ==
    \A k \in Keys :
        (/\ HasEntry(room_map, k[1], k[2], k[3])
         /\ now - room_map[k[1]][k[2]][k[3]].init_time >= TTL
         /\ SweepDue(k[1], k[2]))
        ~> (/\ ~HasEntry(room_map, k[1], k[2], k[3])
            /\ GetRoomCandidateResult(room_map, k[1], k[2], UuidToString(k[3])).status = "NotFound")

\* The sweeper has removed the last entry of the store and sleeps again.
C14_Witness ==
    /\ sweeper.pc = "sleeping"
    /\ sweeper.slept_from >= TTL
    /\ swept_empty # {}
    /\ \A k \in Keys : ~HasEntry(room_map, k[1], k[2], k[3])

\* The operations served by the relay's handlers, as they name themselves
\* in the response.
HandlerOps == {"announce", "get_room_candidate", "get_candidates_in_room", "get_rooms"}

\* C15: a sweep iteration is atomic for the relay's operations: no handler
\* answers between the start and the end of an iteration, so each operation
\* sees the store as it was before the iteration or as the iteration left
\* it; and an announce appends its batch to the list in one piece.
C15_SweepIsAtomic ==
    [][/\ (n_announce' # n_announce \/ (resp' # resp /\ resp'.op \in HandlerOps))
            => (sweeper.pc = "sleeping" /\ sweeper' = sweeper)
       /\ n_announce' # n_announce
            => \A channel \in ChannelNames, room \in RoomNames, peer_id \in PeerIdStrings,
                  args \in Bodies :
                  (/\ broadcast_candidate(channel, room, peer_id, args.candidates,
                                          args.session_description)
                   /\ ParseUuid(peer_id) # Invalid)
                  => LET uuid == ParseUuid(peer_id)
                         before == IF HasEntry(room_map, channel, room, uuid)
                                   THEN room_map[channel][room][uuid].candidate ELSE <<>>
                     IN  room_map'[channel][room][uuid].candidate = before \o args.candidates]_vars

\* The sweeper is in the middle of an iteration: one room is emptied, an
\* expired entry of another room is still stored, and no response is out.
C15_Witness ==
    /\ sweeper.pc = "sweeping"
    /\ swept_empty # {}
    /\ \E k \in Keys :
          /\ <<k[1], k[2]>> \in sweeper.pending
          /\ HasEntry(room_map, k[1], k[2], k[3])
          /\ now - room_map[k[1]][k[2]][k[3]].init_time >= TTL
    /\ resp = NoResp

-----------------------------------------------------------------------------
(* Properties of the acceptor loop. *)

AllTasksReturned == \A t \in TaskIds : ~Running(t)

\* C6: the registry never holds more than max_connections connections, and a
\* loop that ran to its end without an error leaves exactly max_connections
\* in it.
C6_RegistryBounded ==
    /\ Len(active_connections) <= max_connections
    /\ \A t \in TaskIds :
          (tasks[t].result = "Ok" /\ AllTasksReturned)
              => Len(active_connections) = max_connections

\* C9: a connection that was under construction when its task was cancelled
\* is closed, data channel and engine, and is never in the registry; and once
\* every task has returned after a cancellation, each engine the loops
\* created is closed or belongs to a connection the registry holds.
C9_CancelledIterationIsClosed ==
    /\ in_flight_at_cancel \cap Range(active_connections) = {}
    /\ \A e \in in_flight_at_cancel : IsClosed(engines[e])
    /\ (AllTasksReturned /\ \E t \in TaskIds : tasks[t].result = "Cancelled") =>
          \A e \in DOMAIN engines :
              IsClosed(engines[e]) \/ e \in Range(active_connections)

\* C16: at most one acceptor loop of the client is running, however often
\* accept_connections was called.
C16_AtMostOneAcceptorTask ==
    Cardinality({t \in TaskIds : Running(t)}) <= 1

\* C17: when building a connection or its offer exchange fails, the loop
\* ends with the error and does not start again, the connection that failed
\* is closed and is not in the registry, and the registry holds the
\* connections it held, unchanged.
C17_LoopStopsOnError ==
    [][\A t \in TaskIds :
          /\ (Running(t) /\ tasks'[t].result = "Err")
                => /\ tasks'[t].pc = "done"
                   /\ tasks[t].connection # 0
                        => /\ IsClosed(engines'[tasks[t].connection])
                           /\ tasks[t].connection \notin Range(active_connections')
                   /\ active_connections' = active_connections
                   /\ RegistryAlive(client_alive, tasks')
                        => \A e \in Range(active_connections) : engines'[e] = engines[e]
          /\ tasks[t].result = "Err" => tasks'[t] = tasks[t]]_vars

\* C22: has_pending_connection() is true only while a loop holds a
\* connection that is under construction and not yet in the registry: it is
\* false before accept_connections, and false again once that connection is
\* registered or the loop has ended.
C22_PendingOnlyWhileUnderConstruction ==
    HasPendingConnectionResult
        => \E t \in TaskIds :
              /\ tasks[t].pc \in {"create_data_channel", "broadcast_offer"}
              /\ tasks[t].connection \notin Range(active_connections)

\* C10: once the P2PClient is gone, no task it started takes a step: none
\* builds a connection, calls the relay or pushes into the registry.
C10_NoStepAfterTeardown ==
    [][~client_alive =>
          /\ tasks' = tasks
          /\ active_connections' = active_connections
          /\ Len(engines') = Len(engines)]_vars

-----------------------------------------------------------------------------
(* Properties of P2PConnection. *)

\* Where a connection is in the negotiation, read off the descriptions the
\* engine holds.
NegotiationState(c) ==
    IF c.dropped THEN "Closed"
    ELSE IF c.local_description = NoDescription /\ c.remote_description = NoDescription
    THEN "Created"
    ELSE IF c.local_description.sdp_type = "offer" /\ c.remote_description = NoDescription
    THEN "OfferSent"
    ELSE IF c.local_description.sdp_type = "answer" /\ c.remote_description.sdp_type = "offer"
    THEN "AnswerSent"
    ELSE IF c.local_description.sdp_type = "offer" /\ c.remote_description.sdp_type = "answer"
    THEN "Negotiating"
    ELSE "Other"

\* C7: the offer/answer round trip.  get_offer on a Created connection yields
\* an offer and leaves it OfferSent; get_answer with that offer on a Created
\* peer yields an answer and leaves the peer AnswerSent; set_answer with that
\* answer on the offerer succeeds and leaves it Negotiating.
C7_OfferAnswerRoundTrip ==
    [][\A id \in ConnIds :
          /\ (get_offer(id) /\ NegotiationState(conns[id]) = "Created")
                => /\ ret'.status = "Ok"
                   /\ ret'.value.sdp_type = "offer"
                   /\ NegotiationState(conns'[id]) = "OfferSent"
          /\ \A d \in SessionDescriptions :
                /\ (/\ get_answer(id, d)
                    /\ NegotiationState(conns[id]) = "Created"
                    /\ d.origin # id
                    /\ NegotiationState(conns[d.origin]) = "OfferSent"
                    /\ d = conns[d.origin].local_description)
                      => /\ ret'.status = "Ok"
                         /\ ret'.value.sdp_type = "answer"
                         /\ NegotiationState(conns'[id]) = "AnswerSent"
                /\ (/\ set_answer(id, d)
                    /\ NegotiationState(conns[id]) = "OfferSent"
                    /\ d.origin # id
                    /\ NegotiationState(conns[d.origin]) = "AnswerSent"
                    /\ d = conns[d.origin].local_description
                    /\ conns[d.origin].remote_description = conns[id].local_description)
                      => /\ ret'.status = "Ok"
                         /\ NegotiationState(conns'[id]) = "Negotiating"]_vars

C7_Witness ==
    /\ ret = [op |-> "set_answer", status |-> "Ok"]
    /\ NegotiationState(conns["A"]) = "Negotiating"
    /\ NegotiationState(conns["B"]) = "AnswerSent"
    /\ conns["A"].remote_description = conns["B"].local_description
    /\ conns["B"].remote_description = conns["A"].local_description

\* C8: set_candidates on a connection that has no remote description fails
\* and hands no candidate to the engine; on one that has, it succeeds.
C8_CandidatesNeedRemoteDescription ==
    [][\A id \in ConnIds, candidates \in CandidateLists :
          set_candidates(id, candidates) =>
              IF conns[id].remote_description = NoDescription
              THEN /\ ret'.status = "Err"
                   /\ conns'[id].remote_candidates = conns[id].remote_candidates
              ELSE ret'.status = "Ok"]_vars

\* C18: set_answer takes effect only on a connection that is OfferSent: in
\* any other state it sets no remote description and the connection stays in
\* the state it was in; and get_answer with a description that is not an
\* offer fails and leaves the connection as it was.
C18_AnswerOnlyWhenOfferSent ==
    [][\A id \in ConnIds, d \in SessionDescriptions :
          /\ (set_answer(id, d) /\ NegotiationState(conns[id]) # "OfferSent")
                => /\ conns'[id].remote_description = conns[id].remote_description
                   /\ NegotiationState(conns'[id]) = NegotiationState(conns[id])
          /\ (get_answer(id, d) /\ d.sdp_type # "offer")
                => /\ ret'.status = "Err"
                   /\ conns'[id].remote_description = conns[id].remote_description
                   /\ NegotiationState(conns'[id]) = NegotiationState(conns[id])]_vars

\* C19: the connected flag is false before any report of the engine, after
\* a report it is true exactly if that report was `connected`, nothing but a
\* report changes it, and get_is_connected_to_peer returns it.
C19_IsConnectedFollowsLastReport ==
    [][\A id \in ConnIds :
          /\ n_events = 0 => ~conns[id].connected
          /\ \A state \in PeerConnectionStates :
                on_peer_connection_state_change(id, state)
                => conns'[id].connected = (state = "connected")
          /\ (\A state \in PeerConnectionStates : ~on_peer_connection_state_change(id, state))
                => conns'[id].connected = conns[id].connected
          /\ get_is_connected_to_peer(id)
                => ret'.value = conns[id].connected]_vars

\* A connection was reported connected, was read as connected, and was then
\* reported in another state.
C19_Witness ==
    /\ ret = [op |-> "get_is_connected_to_peer", status |-> "Ok", value |-> TRUE]
    /\ n_events = 2
    /\ \A id \in ConnIds : ~conns[id].connected /\ ~conns[id].dropped

IsPrefix(p, q) == Len(p) <= Len(q) /\ SubSeq(q, 1, Len(p)) = p

C21_TeardownOrder ==
    [][\A id \in ConnIds :
          /\ (~conns[id].dropped /\ conns'[id].dropped)
                => /\ conns'[id].close_order
                         = conns[id].close_order \o <<"data_channel", "connection">>
                   /\ conns'[id].data_channel_closed = 1
                   /\ conns'[id].connection_closed = 1
                   /\ ret'.op = "drop"
                   /\ ret'.status = "Ok"
          /\ conns[id].dropped
                => /\ conns'[id].dropped
                   /\ conns'[id].close_order = conns[id].close_order
                   /\ conns'[id].data_channel_closed = conns[id].data_channel_closed
                   /\ conns'[id].connection_closed = conns[id].connection_closed
          /\ ~conns[id].dropped => conns[id].close_order = <<>>]_vars

\* A connection that had sent its offer and been given the answer is torn
\* down, the close of its data channel fails, and both closes were made.
C21_Witness ==
    /\ ret.op = "drop"
    /\ ret.data_channel_close = "Err"
    /\ conns["A"].dropped
    /\ conns["A"].local_description.sdp_type = "offer"
    /\ conns["A"].remote_description.sdp_type = "answer"
    /\ conns["A"].close_order = <<"data_channel", "connection">>

=============================================================================
